---------------------------- MODULE Spec2Model ----------------------------
(***************************************************************************)
(* Model of uucore's escape-sequence decoder                               *)
(* (src/uucore/src/lib/features/format/escape.rs).                         *)
(*                                                                         *)
(* Bytes are the integers 0..255 (their ASCII codes).  A cursor            *)
(* (`&mut &[u8]`) is a sequence of bytes; a function that advances the     *)
(* cursor returns the new cursor next to its value.  The state machine is  *)
(* a caller that owns one cursor over a buffer and calls                   *)
(* parse_escape_code on it again and again.                                *)
(***************************************************************************)
EXTENDS Integers, Sequences, FiniteSets

VARIABLES
    buffer,               \* the bytes the caller started with
    zero_octal_parsing,   \* the OctalParsing policy the caller passes
    input,                \* the cursor on entry of the most recent call
    rest,                 \* the cursor now
    ret,                  \* what the most recent call returned
    calls,                \* calls made by the caller's loop so far
    pc                    \* "loop" while the caller is running, then "done"

vars == <<buffer, zero_octal_parsing, input, rest, ret, calls, pc>>

---------------------------------------------------------------------------
(* Byte literals of the source. *)
b_0 == 48
b_1 == 49
b_7 == 55
b_9 == 57
b_A == 65
b_F == 70
b_U == 85
b_a == 97
b_b == 98
b_c == 99
b_e == 101
b_f == 102
b_n == 110
b_r == 114
b_t == 116
b_u == 117
b_v == 118
b_x == 120
b_quote == 34
b_backslash == 92

(* enum OctalParsing { TwoDigits = 2, ThreeDigits = 3 } *)
TwoDigits == 2
ThreeDigits == 3
OctalParsing == {TwoDigits, ThreeDigits}

(* enum Base { Oct(OctalParsing), Hex } *)
Oct(parsing) == [tag |-> "Oct", parsing |-> parsing]
Hex == [tag |-> "Hex"]

(* Option<T> *)
None == [some |-> FALSE]
Some(v) == [some |-> TRUE, val |-> v]

(* enum EscapedChar { Byte(u8), Char(char), Backslash(u8), End } *)
Byte(v) == [tag |-> "Byte", val |-> v]
Char(v) == [tag |-> "Char", val |-> v]
Backslash(v) == [tag |-> "Backslash", val |-> v]
End == [tag |-> "End"]

(* Result<EscapedChar, EscapeError> *)
Ok(v) == [ok |-> TRUE, val |-> v]
Err == [ok |-> FALSE]

(* u8::wrapping_mul and u8::wrapping_add *)
wrapping_mul_sat(a, b) == IF a * b > 255 THEN 255 ELSE a * b
wrapping_mul(a, b) == (a * b) % 256
wrapping_add(a, b) == (a + b) % 256

(* Base::as_base *)
as_base(base) == IF base.tag = "Oct" THEN 8 ELSE 16

(* Base::max_digits *)
max_digits_three(base) == IF base.tag = "Oct" THEN 3 ELSE 2
max_digits(base) == IF base.tag = "Oct" THEN base.parsing ELSE 2

(* Base::convert_digit *)
convert_digit_lower(base, c) ==
    IF base.tag = "Oct"
    THEN IF c \in b_0..b_7 THEN Some(c - b_0) ELSE None
    ELSE CASE c \in b_0..b_9 -> Some(c - b_0)
           [] c \in b_A..b_F -> Some(c - b_A + 10)
           [] c \in b_a..b_f -> Some(c - b_a)
           [] OTHER -> None
convert_digit_upper(base, c) ==
    IF base.tag = "Oct"
    THEN IF c \in b_0..b_7 THEN Some(c - b_0) ELSE None
    ELSE CASE c \in b_0..b_9 -> Some(c - b_0)
           [] c \in b_a..b_f -> Some(c - b_a + 10)
           [] OTHER -> None
convert_digit(base, c) ==
    IF base.tag = "Oct"
    THEN IF c \in b_0..b_7 THEN Some(c - b_0) ELSE None
    ELSE CASE c \in b_0..b_9 -> Some(c - b_0)
           [] c \in b_A..b_F -> Some(c - b_A + 10)
           [] c \in b_a..b_f -> Some(c - b_a + 10)
           [] OTHER -> None

(* parse_code, the loop `for _ in 1..base.max_digits()`: `left` iterations *)
(* are still to run, `acc` is `ret`.                                       *)
RECURSIVE parse_code_loop(_, _, _, _)
parse_code_loop(cursor, base, acc, left) ==
    IF left = 0 \/ cursor = <<>>
    THEN [ret |-> Some(acc), input |-> cursor]
    ELSE LET n == convert_digit(base, Head(cursor))
         IN  IF ~n.some
             THEN [ret |-> Some(acc), input |-> cursor]
             ELSE parse_code_loop(Tail(cursor), base,
                      wrapping_add(wrapping_mul(acc, as_base(base)), n.val),
                      left - 1)

(* parse_code: the value (Option<u8>) and the cursor it leaves *)
parse_code_eats(cursor, base) ==
    IF cursor = <<>>
    THEN [ret |-> None, input |-> cursor]
    ELSE LET d == convert_digit(base, Head(cursor))
         IN  IF ~d.some
             THEN [ret |-> None, input |-> Tail(cursor)]
             ELSE parse_code_loop(Tail(cursor), base, d.val, max_digits(base) - 1)
parse_code(cursor, base) ==
    IF cursor = <<>>
    THEN [ret |-> None, input |-> cursor]
    ELSE LET d == convert_digit(base, Head(cursor))
         IN  IF ~d.some
             THEN [ret |-> None, input |-> cursor]
             ELSE parse_code_loop(Tail(cursor), base, d.val, max_digits(base) - 1)

(* A u32 as two 16-bit halves, value hi * 2^16 + lo. *)
u32(v) == [hi |-> v \div 65536, lo |-> v % 65536]

(* `ret.wrapping_mul(16).wrapping_add(n as u32)` on u32 (lines 103-105) *)
wrapping_mul_add_u32(acc, radix, n) ==
    LET lo2 == acc.lo * radix + n
        hi2 == acc.hi * radix + (lo2 \div 65536)
    IN  [hi |-> hi2 % 65536, lo |-> lo2 % 65536]

(* char::from_u32: Some for a Unicode scalar value, else None *)
char_from_u32_surrogates(v) ==
    IF v.hi > 16 THEN None ELSE Some(v.hi * 65536 + v.lo)
char_from_u32(v) ==
    IF v.hi > 16 \/ (v.hi = 0 /\ v.lo \in 55296..57343)
    THEN None
    ELSE Some(v.hi * 65536 + v.lo)

(* parse_unicode, the loop `for _ in 1..digits`: `left` iterations are *)
(* still to run, `acc` is `ret`.                                        *)
RECURSIVE parse_unicode_loop_eats(_, _, _)
parse_unicode_loop_eats(cursor, acc, left) ==
    IF left = 0
    THEN [ret |-> char_from_u32(acc), input |-> cursor]
    ELSE IF cursor = <<>>
         THEN [ret |-> None, input |-> cursor]
         ELSE LET n == convert_digit(Hex, Head(cursor))
              IN  IF ~n.some
                  THEN [ret |-> None, input |-> Tail(cursor)]
                  ELSE parse_unicode_loop_eats(Tail(cursor),
                           wrapping_mul_add_u32(acc, as_base(Hex), n.val),
                           left - 1)
RECURSIVE parse_unicode_loop(_, _, _)
parse_unicode_loop(cursor, acc, left) ==
    IF left = 0
    THEN [ret |-> char_from_u32(acc), input |-> cursor]
    ELSE IF cursor = <<>>
         THEN [ret |-> None, input |-> cursor]
         ELSE LET n == convert_digit(Hex, Head(cursor))
              IN  IF ~n.some
                  THEN [ret |-> None, input |-> cursor]
                  ELSE parse_unicode_loop(Tail(cursor),
                           wrapping_mul_add_u32(acc, as_base(Hex), n.val),
                           left - 1)

(* parse_unicode: the value (Option<char>) and the cursor it leaves *)
parse_unicode(cursor, digits) ==
    IF cursor = <<>>
    THEN [ret |-> None, input |-> cursor]
    ELSE LET d == convert_digit(Hex, Head(cursor))
         IN  IF ~d.some
             THEN [ret |-> None, input |-> cursor]
             ELSE parse_unicode_loop(Tail(cursor), u32(d.val), digits - 1)

(* Option::unwrap_or *)
unwrap_or(opt, default) == IF opt.some THEN opt.val ELSE default

(* parse_escape_code, the `match c` after `*rest = new_rest` (lines 132-157): *)
(* the Result and the cursor left.                                            *)
match_c_escape(c, new_rest, octal) ==
    CASE c = b_backslash -> [result |-> Ok(Byte(b_backslash)), rest |-> new_rest]
      [] c = b_quote -> [result |-> Ok(Byte(b_quote)), rest |-> new_rest]
      [] c = b_a -> [result |-> Ok(Byte(7)), rest |-> new_rest]
      [] c = b_b -> [result |-> Ok(Byte(8)), rest |-> new_rest]
      [] c = b_c -> [result |-> Ok(End), rest |-> new_rest]
      [] c = b_e -> [result |-> Ok(Byte(101)), rest |-> new_rest]
      [] c = b_f -> [result |-> Ok(Byte(12)), rest |-> new_rest]
      [] c = b_n -> [result |-> Ok(Byte(10)), rest |-> new_rest]
      [] c = b_r -> [result |-> Ok(Byte(13)), rest |-> new_rest]
      [] c = b_t -> [result |-> Ok(Byte(9)), rest |-> new_rest]
      [] c = b_v -> [result |-> Ok(Byte(11)), rest |-> new_rest]
      [] c = b_x ->
            LET p == parse_code(new_rest, Hex)
            IN  IF p.ret.some
                THEN [result |-> Ok(Byte(p.ret.val)), rest |-> p.input]
                ELSE [result |-> Err, rest |-> p.input]
      [] c = b_0 ->
            LET p == parse_code(new_rest, Oct(octal))
            IN  [result |-> Ok(Byte(unwrap_or(p.ret, 0))), rest |-> p.input]
      [] c = b_u ->
            LET p == parse_unicode(new_rest, 4)
            IN  [result |-> Ok(Char(unwrap_or(p.ret, 0))), rest |-> p.input]
      [] c = b_U ->
            LET p == parse_unicode(new_rest, 8)
            IN  [result |-> Ok(Char(unwrap_or(p.ret, 0))), rest |-> p.input]
      [] OTHER -> [result |-> Ok(Backslash(c)), rest |-> new_rest]
match_c(c, new_rest, octal) ==
    CASE c = b_backslash -> [result |-> Ok(Byte(b_backslash)), rest |-> new_rest]
      [] c = b_quote -> [result |-> Ok(Byte(b_quote)), rest |-> new_rest]
      [] c = b_a -> [result |-> Ok(Byte(7)), rest |-> new_rest]
      [] c = b_b -> [result |-> Ok(Byte(8)), rest |-> new_rest]
      [] c = b_c -> [result |-> Ok(End), rest |-> new_rest]
      [] c = b_e -> [result |-> Ok(Byte(27)), rest |-> new_rest]
      [] c = b_f -> [result |-> Ok(Byte(12)), rest |-> new_rest]
      [] c = b_n -> [result |-> Ok(Byte(10)), rest |-> new_rest]
      [] c = b_r -> [result |-> Ok(Byte(13)), rest |-> new_rest]
      [] c = b_t -> [result |-> Ok(Byte(9)), rest |-> new_rest]
      [] c = b_v -> [result |-> Ok(Byte(11)), rest |-> new_rest]
      [] c = b_x ->
            LET p == parse_code(new_rest, Hex)
            IN  IF p.ret.some
                THEN [result |-> Ok(Byte(p.ret.val)), rest |-> p.input]
                ELSE [result |-> Err, rest |-> p.input]
      [] c = b_0 ->
            LET p == parse_code(new_rest, Oct(octal))
            IN  [result |-> Ok(Byte(unwrap_or(p.ret, 0))), rest |-> p.input]
      [] c = b_u ->
            LET p == parse_unicode(new_rest, 4)
            IN  [result |-> Ok(Char(unwrap_or(p.ret, 0))), rest |-> p.input]
      [] c = b_U ->
            LET p == parse_unicode(new_rest, 8)
            IN  [result |-> Ok(Char(unwrap_or(p.ret, 0))), rest |-> p.input]
      [] OTHER -> [result |-> Ok(Backslash(c)), rest |-> new_rest]

(* parse_escape_code: the Result and the cursor on return *)
parse_escape_code_end(cursor, octal) ==
    IF cursor # <<>>
    THEN LET c == Head(cursor)
             new_rest == Tail(cursor)
             p == parse_code(cursor, Oct(ThreeDigits))
         IN  IF c \in b_1..b_7 /\ p.ret.some
             THEN [result |-> Ok(Byte(p.ret.val)), rest |-> p.input]
             ELSE match_c(c, new_rest, octal)
    ELSE [result |-> Ok(Backslash(b_backslash)), rest |-> cursor]
parse_escape_code_stay(cursor, octal) ==
    IF cursor # <<>>
    THEN LET c == Head(cursor)
             new_rest == Tail(cursor)
             p == parse_code(cursor, Oct(ThreeDigits))
         IN  IF c \in b_1..b_7 /\ p.ret.some
             THEN [result |-> Ok(Byte(p.ret.val)), rest |-> p.input]
             ELSE IF c = b_c
                  THEN [result |-> Ok(End), rest |-> cursor]
                  ELSE match_c(c, new_rest, octal)
    ELSE [result |-> Ok(Byte(b_backslash)), rest |-> cursor]
parse_escape_code(cursor, octal) ==
    IF cursor # <<>>
    THEN LET c == Head(cursor)
             new_rest == Tail(cursor)
             p == parse_code(cursor, Oct(ThreeDigits))
         IN  IF c \in b_1..b_7 /\ p.ret.some
             THEN [result |-> Ok(Byte(p.ret.val)), rest |-> p.input]
             ELSE match_c(c, new_rest, octal)
    ELSE [result |-> Ok(Byte(b_backslash)), rest |-> cursor]

---------------------------------------------------------------------------
(* The inputs. *)

(* Longest tail after the first byte of a general input. *)
MaxTail == 3
(* Most octal-looking bytes after the first byte of an octal input. *)
MaxOct == 4
(* Most hex digits after `u` / `U` in a Unicode input. *)
MaxUni == 8

RECURSIVE SeqsUpTo(_, _)
SeqsUpTo(S, n) ==
    IF n = 0 THEN {<<>>}
    ELSE LET shorter == SeqsUpTo(S, n - 1)
         IN  shorter \cup {<<x>> \o s : x \in S, s \in {t \in shorter : Len(t) = n - 1}}

(* First bytes: 0 1 7 8 9, x u U, every escape letter, \ and ", and the *)
(* unrecognised z, G and 0xC8.                                          *)
FirstBytes ==
    {48, 49, 55, 56, 57, 120, 117, 85, 92, 34, 97, 98, 99, 101, 102, 110,
     114, 116, 118, 122, 71, 200}
(* Following bytes: 0 7 (octal), 9 D d (hex only), z (no digit). *)
TailBytes == {48, 55, 57, 68, 100, 122}
(* Octal inputs: 0 3 7 first, then 0 3 7 and the non-octal 8. *)
OctFirst == {48, 51, 55}
OctBytes == {48, 51, 55, 56}
(* Digits of a Unicode input: 0 D; what follows them: nothing, z or d. *)
UniDigits == {48, 68}
UniEnds == {<<>>, <<122>>, <<100>>}
(* Inputs at the edges of the Unicode scalar values, and the spec's examples: *)
(* \U0010FFFF \U00110000 \UFFFFFFFF \U0001F600 \uD7FF \uD800 \udfff    *)
(* \uE000 \u0041 \x41 \x1 \777                                           *)
EdgeInputs ==
    {<<85, 48, 48, 49, 48, 70, 70, 70, 70>>, <<85, 48, 48, 49, 49, 48, 48, 48, 48>>,
     <<85, 70, 70, 70, 70, 70, 70, 70, 70>>, <<85, 48, 48, 48, 49, 70, 54, 48, 48>>,
     <<117, 68, 55, 70, 70>>, <<117, 68, 56, 48, 48>>, <<117, 100, 102, 102, 102>>,
     <<117, 69, 48, 48, 48>>, <<117, 48, 48, 52, 49>>, <<120, 52, 49>>, <<120, 49>>,
     <<55, 55, 55>>}

GeneralInputs == {<<h>> \o t : h \in FirstBytes, t \in SeqsUpTo(TailBytes, MaxTail)}
OctalInputs == {<<h>> \o t : h \in OctFirst, t \in SeqsUpTo(OctBytes, MaxOct)}
UnicodeInputs ==
    {<<h>> \o d \o e : h \in {b_u, b_U}, d \in SeqsUpTo(UniDigits, MaxUni), e \in UniEnds}
Inputs == {<<>>} \cup GeneralInputs \cup OctalInputs \cup UnicodeInputs \cup EdgeInputs

(* `ret` before the first call. *)
NoCall == [ok |-> FALSE, val |-> [tag |-> "NoCall"]]

Init ==
    /\ buffer \in Inputs
    /\ zero_octal_parsing \in OctalParsing
    /\ input = buffer
    /\ rest = buffer
    /\ ret = NoCall
    /\ calls = 0
    /\ pc = "loop"

(* One iteration of the caller's loop `while !rest.is_empty()`. *)
Decode ==
    /\ pc = "loop"
    /\ rest # <<>>
    /\ LET r == parse_escape_code(rest, zero_octal_parsing)
       IN  /\ input' = rest
           /\ rest' = r.rest
           /\ ret' = r.result
    /\ calls' = calls + 1
    /\ UNCHANGED <<buffer, zero_octal_parsing, pc>>

(* The backslash was the last byte: the call is made on an empty cursor. *)
DecodeTrailing ==
    /\ pc = "loop"
    /\ rest = <<>>
    /\ LET r == parse_escape_code(rest, zero_octal_parsing)
       IN  /\ input' = rest
           /\ rest' = r.rest
           /\ ret' = r.result
    /\ pc' = "done"
    /\ UNCHANGED <<buffer, zero_octal_parsing, calls>>

(* The buffer did not end in a backslash: the caller stops. *)
Finish ==
    /\ pc = "loop"
    /\ rest = <<>>
    /\ pc' = "done"
    /\ UNCHANGED <<buffer, zero_octal_parsing, input, rest, ret, calls>>

Next == Decode \/ DecodeTrailing \/ Finish

Spec == Init /\ [][Next]_vars

---------------------------------------------------------------------------
(* What the properties are stated with: digits, values and runs, written *)
(* without the decoder's own operators.                                   *)

Called == ret # NoCall
Consumed == Len(input) - Len(rest)
Drop(s, k) == SubSeq(s, k + 1, Len(s))
Take(s, k) == SubSeq(s, 1, k)

IsOctDigit(c) == c \in 48..55
IsHexDigit(c) == c \in (48..57) \cup (65..70) \cup (97..102)
DigitValue(c) == IF c <= 57 THEN c - 48 ELSE IF c <= 70 THEN c - 55 ELSE c - 87

(* Positional value of a run of digit bytes. *)
RECURSIVE PosValue(_, _)
PosValue(ds, radix) ==
    IF ds = <<>> THEN 0
    ELSE PosValue(Take(ds, Len(ds) - 1), radix) * radix + DigitValue(ds[Len(ds)])

(* Length of the longest run of octal / hex digits at the front of s, capped. *)
RECURSIVE OctRun(_, _)
OctRun(s, cap) ==
    IF cap = 0 \/ s = <<>> \/ ~IsOctDigit(Head(s)) THEN 0 ELSE 1 + OctRun(Tail(s), cap - 1)
RECURSIVE HexRun(_, _)
HexRun(s, cap) ==
    IF cap = 0 \/ s = <<>> \/ ~IsHexDigit(Head(s)) THEN 0 ELSE 1 + HexRun(Tail(s), cap - 1)

(* A run of hex digits denotes a Unicode scalar value: every digit above the *)
(* lowest six is 0, and the lowest six are at most 10FFFF and no surrogate.  *)
LowSix(ds) == IF Len(ds) > 6 THEN Drop(ds, Len(ds) - 6) ELSE ds
IsScalar(ds) ==
    /\ \A i \in 1..(Len(ds) - 6) : DigitValue(ds[i]) = 0
    /\ PosValue(LowSix(ds), 16) <= 1114111
    /\ PosValue(LowSix(ds), 16) \notin 55296..57343
ScalarValue(ds) == PosValue(LowSix(ds), 16)

UnicodeDigits(c) == IF c = 117 THEN 4 ELSE 8

(* C1: parse_escape_code returns Err exactly when the entry cursor starts *)
(* with x and the byte after it is absent or no hex digit; every other    *)
(* entry cursor, under either octal policy, gives Ok.                     *)
C1_ErrIffBareX ==
    Called =>
        /\ ret = Err <=> /\ input # <<>>
                         /\ input[1] = 120
                         /\ (Len(input) < 2 \/ ~IsHexDigit(input[2]))
        /\ ret # Err => ret.ok
C1_Witness ==
    /\ Called /\ ret = Err /\ Len(input) >= 2 /\ input[2] = 122
    /\ zero_octal_parsing = ThreeDigits

(* C2: on a first byte 1..7 the result is Byte of the base-8 value, modulo *)
(* 256, of the longest run of at most 3 octal digits at the front, and the *)
(* cursor advances by the length of that run, whatever the octal policy.   *)
C2_OctalNNN ==
    (Called /\ input # <<>> /\ input[1] \in 49..55) =>
        LET k == OctRun(input, 3)
        IN  /\ k \in 1..3
            /\ ret = Ok(Byte(PosValue(Take(input, k), 8) % 256))
            /\ rest = Drop(input, k)
C2_Witness ==
    /\ Called /\ zero_octal_parsing = TwoDigits
    /\ input = <<55, 55, 55, 55>> /\ ret = Ok(Byte(255)) /\ rest = <<55>>

(* C3: on a first byte 0 the 0 is consumed and then at most N octal digits *)
(* (N = 2 under TwoDigits, 3 under ThreeDigits); the result is Byte of     *)
(* their base-8 value modulo 256, Byte(0) when there is none, and a        *)
(* further octal digit stays at the front of the cursor.                   *)
C3_OctalZero ==
    (Called /\ input # <<>> /\ input[1] = 48) =>
        LET N == IF zero_octal_parsing = TwoDigits THEN 2 ELSE 3
            t == Tail(input)
            k == OctRun(t, N)
        IN  /\ ret = Ok(Byte(PosValue(Take(t, k), 8) % 256))
            /\ rest = Drop(t, k)
            /\ k = 0 => ret = Ok(Byte(0)) /\ rest = t
C3_Witness ==
    /\ Called /\ zero_octal_parsing = ThreeDigits
    /\ input = <<48, 55, 55, 55, 55>> /\ ret = Ok(Byte(255)) /\ rest = <<55>>

(* C4: on x followed by a hex digit the result is Byte of the exact base-16 *)
(* value of the one or two leading hex digits, either case, and the cursor  *)
(* advances past x and those digits only.                                   *)
C4_HexXHH ==
    (Called /\ Len(input) >= 2 /\ input[1] = 120 /\ IsHexDigit(input[2])) =>
        LET t == Tail(input)
            k == HexRun(t, 2)
        IN  /\ k \in 1..2
            /\ ret = Ok(Byte(PosValue(Take(t, k), 16)))
            /\ rest = Drop(t, k)
C4_Witness ==
    /\ Called /\ input = <<120, 100, 68, 100>>
    /\ ret = Ok(Byte(221)) /\ rest = <<100>>

(* C5: on u (n = 4) or U (n = 8), n hex digits denoting a Unicode scalar *)
(* value give Char of that value with 1 + n bytes consumed; every other  *)
(* case gives Ok(Char(NUL)), never an error.                             *)
C5_Unicode ==
    (Called /\ input # <<>> /\ input[1] \in {117, 85}) =>
        LET n == UnicodeDigits(input[1])
            t == Tail(input)
        IN  IF HexRun(t, n) = n /\ IsScalar(Take(t, n))
            THEN /\ ret = Ok(Char(ScalarValue(Take(t, n))))
                 /\ Consumed = 1 + n
                 /\ rest = Drop(t, n)
            ELSE ret = Ok(Char(0))
C5_Witness ==
    /\ Called /\ input = <<85, 48, 48, 48, 49, 70, 54, 48, 48>>
    /\ ret = Ok(Char(128512)) /\ rest = <<>>

(* C6: on any other first byte exactly that byte is consumed and the result *)
(* is the fixed byte of the escape letter, End for c, and Backslash of the  *)
(* byte when it is no escape letter.                                        *)
SimpleEscape(c) ==
    CASE c = 92 -> Byte(92)
      [] c = 34 -> Byte(34)
      [] c = 97 -> Byte(7)
      [] c = 98 -> Byte(8)
      [] c = 101 -> Byte(27)
      [] c = 102 -> Byte(12)
      [] c = 110 -> Byte(10)
      [] c = 114 -> Byte(13)
      [] c = 116 -> Byte(9)
      [] c = 118 -> Byte(11)
      [] c = 99 -> End
      [] OTHER -> Backslash(c)
C6_SimpleEscapes ==
    (Called /\ input # <<>> /\ input[1] \notin (48..55) \cup {120, 117, 85}) =>
        /\ ret = Ok(SimpleEscape(input[1]))
        /\ rest = Tail(input)
C6_Witness ==
    /\ Called /\ Len(input) >= 2 /\ input[1] = 101
    /\ ret = Ok(Byte(27)) /\ rest = Tail(input)

(* C7: on an empty cursor the result is Ok(Byte(0x5C)) under either policy *)
(* and the cursor is still empty.                                          *)
C7_TrailingBackslash ==
    (Called /\ input = <<>>) => ret = Ok(Byte(92)) /\ rest = <<>>
C7_Witness ==
    /\ Called /\ input = <<>> /\ buffer # <<>> /\ pc = "done"
    /\ ret = Ok(Byte(92)) /\ zero_octal_parsing = ThreeDigits

(* C8: after every call the cursor is a suffix of the entry cursor, strictly *)
(* shorter when the entry cursor was not empty; so the caller's loop has     *)
(* made no more calls than bytes were consumed, which bounds its length by   *)
(* the length of the buffer.                                                 *)
C8_CursorShrinks ==
    /\ Called =>
        /\ Consumed \in 0..Len(input)
        /\ rest = Drop(input, Consumed)
        /\ input # <<>> => Len(rest) < Len(input)
    /\ calls + Len(rest) <= Len(buffer)
    /\ calls <= Len(buffer)
C8_Witness ==
    /\ pc = "done" /\ Len(buffer) = 4 /\ calls = 4 /\ rest = <<>>

(* C9: when the call returns Err the cursor has advanced by exactly one *)
(* byte, the x, so the offending byte, if any, is the next one.         *)
C9_ErrConsumesX ==
    (Called /\ ret = Err) =>
        /\ input # <<>>
        /\ rest = Tail(input)
C9_Witness ==
    /\ Called /\ ret = Err /\ input = <<120, 122, 48>> /\ rest = <<122, 48>>

(* C10: when the k-th digit after u / U is missing or no hex digit, the    *)
(* result is Char(NUL) and the cursor is past u / U and the k-1 hex digits *)
(* before it; when all n digits are hex but denote no scalar value, the    *)
(* result is Char(NUL) and the cursor is past u / U and all n digits.      *)
C10_UnicodeFallbackCursor ==
    (Called /\ input # <<>> /\ input[1] \in {117, 85}) =>
        LET n == UnicodeDigits(input[1])
            t == Tail(input)
            k == HexRun(t, n)
        IN  /\ k < n => ret = Ok(Char(0)) /\ rest = Drop(t, k)
            /\ (k = n /\ ~IsScalar(Take(t, n))) =>
                   ret = Ok(Char(0)) /\ rest = Drop(t, n)
C10_Witness ==
    /\ Called /\ input = <<85, 68, 68, 122>>
    /\ ret = Ok(Char(0)) /\ rest = <<122>>

===========================================================================
